---- MODULE Spec2Model ----
(***************************************************************************)
(* Model of src/main.py: the cloud-event handler `index`, which decodes an *)
(* audit-log envelope, fetches the Okta IP ranges, classifies the caller   *)
(* address and, when the policy approves, calls add_subgroup to create a   *)
(* membership in the parent group.                                         *)
(*                                                                         *)
(* Address strings are modelled as bit strings: an address literal is      *)
(* well formed iff it has exactly AddrBits bits; the empty string is <<>>. *)
(* A range string "a/p" is the record [addr |-> a, prefix |-> p].          *)
(***************************************************************************)
EXTENDS Integers, Sequences, FiniteSets, TLC

\* ---------------------------------------------------------------- bounds
AddrBits == 2
MaxRanges == 2

\* ------------------------------------------------------- ipaddress module
RECURSIVE Pow2(_)
Pow2(n) == IF n = 0 THEN 1 ELSE 2 * Pow2(n - 1)

RECURSIVE BitsValue(_)
BitsValue(s) ==
    IF s = <<>> THEN 0
    ELSE 2 * BitsValue(SubSeq(s, 1, Len(s) - 1)) + s[Len(s)]

\* ip_address(s) raises ValueError unless s is a well-formed literal
ip_address_ok(s) == Len(s) = AddrBits

\* ip_network(r) (strict) raises ValueError on a malformed address, a prefix
\* out of range, or host bits set
ip_network_ok(r) ==
    /\ Len(r.addr) = AddrBits
    /\ r.prefix \in 0..AddrBits
    /\ BitsValue(r.addr) % Pow2(AddrBits - r.prefix) = 0

\* ip in network
in_network(s, r) ==
    BitsValue(s) \div Pow2(AddrBits - r.prefix)
        = BitsValue(r.addr) \div Pow2(AddrBits - r.prefix)

\* ------------------------------------------------------------ input sets
Members == {"user-a", "group-b"}
ParentGroups == {"parent-group"}
UnsetFlag == "Okta Groups Only boolean not set in Cloud Run Function environment variable"
FlagValues == {"True", "False", UnsetFlag}

BitStrings(n) == [1..n -> {0, 1}]
\* callerIp values: the empty string, a malformed literal, every address
AddressStrings == {<<>>, <<1>>} \cup BitStrings(AddrBits)
\* entries of an "ip_ranges" list: every network, one entry with host bits
\* set and one that is not an address at all
RangeStrings ==
    {r \in [addr : BitStrings(AddrBits), prefix : 0..AddrBits] :
        ip_network_ok(r) \/ (r.prefix = 0 /\ \A i \in 1..AddrBits : r.addr[i] = 1)}
    \cup {[addr |-> <<>>, prefix |-> 0]}
RangeLists == UNION {[1..n -> RangeStrings] : n \in 0..MaxRanges}

NoEvent == [kind |-> "none", hasCallerIp |-> FALSE, callerIp |-> <<>>, value |-> ""]
Envelopes ==
    {[kind |-> k, hasCallerIp |-> FALSE, callerIp |-> <<>>, value |-> ""] :
        k \in {"bad_base64", "bad_json", "missing_path"}}
    \cup {[kind |-> "ok", hasCallerIp |-> TRUE, callerIp |-> c, value |-> m] :
            c \in AddressStrings, m \in Members}
    \cup {[kind |-> "ok", hasCallerIp |-> FALSE, callerIp |-> <<>>, value |-> m] :
            m \in Members}

\* The JSON document served at okta_ip_ranges_url: a mapping whose values
\* (cells) may or may not hold an "ip_ranges" list.
Cell(rs) == [has |-> TRUE, ip_ranges |-> rs]
NoRangesCell == [has |-> FALSE, ip_ranges |-> <<>>]
Documents ==
    {<<>>} \cup
    {<<Cell(SubSeq(rs, 1, k))>> \o g \o <<Cell(SubSeq(rs, k + 1, Len(rs)))>> :
        <<rs, k, g>> \in {t \in RangeLists \X (0..MaxRanges) \X {<<>>, <<NoRangesCell>>} :
                            t[2] <= Len(t[1])}}
Responses ==
    {[kind |-> "RequestException", data |-> <<>>],
     [kind |-> "AttributeError", data |-> <<>>]}
    \cup {[kind |-> "ok", data |-> d] : d \in Documents}

\* ------------------------------------------------- gather_okta_ip_ranges
RECURSIVE flatten(_)
flatten(data) ==
    IF data = <<>> THEN <<>>
    ELSE (IF Head(data).has THEN Head(data).ip_ranges ELSE <<>>) \o flatten(Tail(data))

\* the except clause of gather_okta_ip_ranges
gather_catches(exc) == exc = "RequestException"

\* result of the call: the exception that escapes it ("" if none) and the list
gather_okta_ip_ranges(resp) ==
    IF resp.kind = "ok" THEN [exc |-> "", value |-> flatten(resp.data)]
    ELSE IF gather_catches(resp.kind) THEN [exc |-> "", value |-> <<>>]
    ELSE [exc |-> resp.kind, value |-> <<>>]

\* ------------------------------------------------------------ is_okta_ip
RECURSIVE scan_ranges(_, _, _)
scan_ranges(ip, ranges, i) ==
    IF i > Len(ranges) THEN "False"
    ELSE IF ~ip_network_ok(ranges[i]) THEN "None"
    ELSE IF in_network(ip, ranges[i]) THEN "True"
    ELSE scan_ranges(ip, ranges, i + 1)

is_okta_ip_bad_address_trusted(requesting_ip, okta_ip_ranges) ==
    IF ~ip_address_ok(requesting_ip) THEN "True"
    ELSE scan_ranges(requesting_ip, okta_ip_ranges, 1)

is_okta_ip(requesting_ip, okta_ip_ranges) ==
    IF ~ip_address_ok(requesting_ip) THEN "None"
    ELSE scan_ranges(requesting_ip, okta_ip_ranges, 1)

\* ----------------------------------------------------------------- index
decode_defaults_value(env) ==
    IF env.kind \in {"bad_base64", "bad_json"}
    THEN [exc |-> "ValueError", requesting_ip |-> <<>>, membership_id |-> ""]
    ELSE [exc |-> "",
          requesting_ip |-> IF env.hasCallerIp THEN env.callerIp ELSE <<>>,
          membership_id |-> env.value]

\* lines 57-60: b64decode, json.loads and the navigation of the payload
decode(env) ==
    IF env.kind \in {"bad_base64", "bad_json"}
    THEN [exc |-> "ValueError", requesting_ip |-> <<>>, membership_id |-> ""]
    ELSE IF env.kind = "missing_path"
    THEN [exc |-> "KeyError", requesting_ip |-> <<>>, membership_id |-> ""]
    ELSE [exc |-> "",
          requesting_ip |-> IF env.hasCallerIp THEN env.callerIp ELSE <<>>,
          membership_id |-> env.value]

fetch_failed_never(ranges) == FALSE

\* `if not okta_ip_ranges`
fetch_failed(ranges) == ranges = <<>>

restrict_unless_false(flag) == flag # "False"

\* `if OKTA_GROUPS_ONLY == 'True'`
restrict(flag) == flag = "True"

\* lines 66-79: the branch taken once the ranges are known
policy(flag, requesting_ip, okta_ip_ranges) ==
    IF restrict(flag)
    THEN IF requesting_ip # <<>>
         THEN IF is_okta_ip(requesting_ip, okta_ip_ranges) = "True"
              THEN "add_subgroup"
              ELSE "Not an Okta IP"
         ELSE "No Requesting IP Found"
    ELSE "add_subgroup"

index_catches_value_errors(exc) == exc \in {"ValueError", "KeyError"}

\* `except Exception` of index
index_catches(exc) == TRUE

error_result == <<"Error processing cloud event", 500>>
success_result == <<"Group Event Processed Successfully", 200>>

\* ---------------------------------------------------------- add_subgroup
steps_create_first == <<"get_credentials", "build", "create", "lookup">>

\* the remote steps of add_subgroup in program order
propagator_steps == <<"get_credentials", "build", "lookup", "create">>

add_subgroup_catches_nothing(step) == FALSE

\* the try block of add_subgroup covers the create call only
add_subgroup_catches(step) == step = "create"

membership_parent(membership_id, parent) ==
    [preferredMemberKey |-> parent, role |-> "MEMBER"]

\* the request body of the create call
membership(membership_id, parent) ==
    [preferredMemberKey |-> membership_id, role |-> "MEMBER"]

\* outcome of a remote step: "" when it returns, else the exception it raises
StepOutcomes == {"", "HttpError"}

\* ------------------------------------------------------------------ state
VARIABLES
    OKTA_GROUPS_ONLY,  \* module-level configuration, read once at start
    PARENT_ID,
    envelope,          \* the event being handled, NoEvent between invocations
    pc,                \* position of the invocation
    requesting_ip,     \* locals of index
    membership_id,
    okta_ip_ranges,
    stepno,            \* position inside add_subgroup
    groupName,         \* local of add_subgroup
    is_okta,           \* value returned by is_okta_ip at line 68, "unset" if not called
    added,             \* arguments add_subgroup was called with, this invocation
    calls,             \* remote calls made in this invocation, in order
    raised,            \* exception that reached the handler of index, "" if none
    result             \* the (message, status) pair returned, <<>> before return

vars == <<OKTA_GROUPS_ONLY, PARENT_ID, envelope, pc, requesting_ip, membership_id,
          okta_ip_ranges, stepno, groupName, is_okta, added, calls, raised, result>>

config == <<OKTA_GROUPS_ONLY, PARENT_ID>>
locals == <<requesting_ip, membership_id, okta_ip_ranges, stepno, groupName>>

NoBody == [preferredMemberKey |-> "", role |-> ""]
Call(op, exc, arg, body) == [op |-> op, exc |-> exc, arg |-> arg, body |-> body]

Init ==
    /\ OKTA_GROUPS_ONLY \in FlagValues
    /\ PARENT_ID \in ParentGroups
    /\ envelope = NoEvent
    /\ pc = "idle"
    /\ requesting_ip = <<>>
    /\ membership_id = ""
    /\ okta_ip_ranges = <<>>
    /\ stepno = 0
    /\ groupName = ""
    /\ is_okta = "unset"
    /\ added = <<>>
    /\ calls = <<>>
    /\ raised = ""
    /\ result = <<>>

\* the dispatcher delivers an event to a fresh activation of index
Deliver ==
    /\ pc = "idle"
    /\ envelope' \in Envelopes
    /\ pc' = "decode"
    /\ UNCHANGED <<config, locals, is_okta, added, calls, raised, result>>

\* an exception leaves the try block of index (lines 80-82)
Raise(exc) ==
    /\ raised' = exc
    /\ IF index_catches(exc)
       THEN pc' = "returned" /\ result' = error_result
       ELSE pc' = "crashed" /\ result' = <<>>

Return(r) ==
    /\ pc' = "returned"
    /\ result' = r
    /\ raised' = ""

\* lines 57-60
Decode ==
    /\ pc = "decode"
    /\ LET d == decode(envelope) IN
        IF d.exc # ""
        THEN /\ Raise(d.exc)
             /\ UNCHANGED <<requesting_ip, membership_id>>
        ELSE /\ requesting_ip' = d.requesting_ip
             /\ membership_id' = d.membership_id
             /\ pc' = "fetch"
             /\ UNCHANGED <<raised, result>>
    /\ UNCHANGED <<config, envelope, okta_ip_ranges, stepno, groupName, is_okta, added, calls>>

\* lines 62-64
Fetch ==
    /\ pc = "fetch"
    /\ \E resp \in Responses :
        LET g == gather_okta_ip_ranges(resp) IN
        /\ calls' = Append(calls, Call("fetch", IF resp.kind = "ok" THEN "" ELSE resp.kind,
                                       "", NoBody))
        /\ IF g.exc # ""
           THEN Raise(g.exc) /\ UNCHANGED okta_ip_ranges
           ELSE /\ okta_ip_ranges' = g.value
                /\ IF fetch_failed(g.value)
                   THEN Return(<<"Could not retrieve Okta IP ranges", 500>>)
                   ELSE pc' = "policy" /\ UNCHANGED <<raised, result>>
    /\ UNCHANGED <<config, envelope, requesting_ip, membership_id, stepno, groupName,
                   is_okta, added>>

\* lines 66-79, up to the call of add_subgroup or the early return
Policy ==
    /\ pc = "policy"
    /\ is_okta' = IF restrict(OKTA_GROUPS_ONLY) /\ requesting_ip # <<>>
                  THEN is_okta_ip(requesting_ip, okta_ip_ranges)
                  ELSE "unset"
    /\ LET p == policy(OKTA_GROUPS_ONLY, requesting_ip, okta_ip_ranges) IN
        IF p = "add_subgroup"
        THEN /\ added' = Append(added, membership_id)
             /\ pc' = "add_subgroup"
             /\ stepno' = 1
             /\ UNCHANGED <<raised, result>>
        ELSE /\ Return(<<p, 200>>)
             /\ UNCHANGED <<added, stepno>>
    /\ UNCHANGED <<config, envelope, requesting_ip, membership_id, okta_ip_ranges,
                   groupName, calls>>

\* what follows a remote step of add_subgroup with outcome exc
AfterStep(step, exc) ==
    IF exc # "" /\ ~add_subgroup_catches(step)
    THEN Raise(exc) /\ UNCHANGED stepno
    ELSE IF stepno < Len(propagator_steps)
    THEN stepno' = stepno + 1 /\ UNCHANGED <<pc, raised, result>>
    ELSE Return(success_result) /\ UNCHANGED stepno

AtStep(step) ==
    /\ pc = "add_subgroup"
    /\ propagator_steps[stepno] = step

\* lines 84-89, called at line 92
GetCredentials ==
    /\ AtStep("get_credentials")
    /\ \E exc \in StepOutcomes :
        /\ calls' = Append(calls, Call("get_credentials", exc,
                        "https://www.googleapis.com/auth/cloud-identity.groups", NoBody))
        /\ AfterStep("get_credentials", exc)
    /\ UNCHANGED <<config, envelope, requesting_ip, membership_id, okta_ip_ranges,
                   groupName, is_okta, added>>

\* lines 94-100
BuildService ==
    /\ AtStep("build")
    /\ \E exc \in StepOutcomes :
        /\ calls' = Append(calls, Call("build", exc, "cloudidentity", NoBody))
        /\ AfterStep("build", exc)
    /\ UNCHANGED <<config, envelope, requesting_ip, membership_id, okta_ip_ranges,
                   groupName, is_okta, added>>

\* lines 102-106
LookupGroup ==
    /\ AtStep("lookup")
    /\ \E exc \in StepOutcomes :
        /\ calls' = Append(calls, Call("lookup", exc, PARENT_ID, NoBody))
        /\ groupName' = IF exc = "" THEN "groups/" \o PARENT_ID ELSE groupName
        /\ AfterStep("lookup", exc)
    /\ UNCHANGED <<config, envelope, requesting_ip, membership_id, okta_ip_ranges,
                   is_okta, added>>

\* lines 108-126
CreateMembership ==
    /\ AtStep("create")
    /\ \E exc \in StepOutcomes :
        /\ calls' = Append(calls, Call("create", exc, groupName,
                                       membership(membership_id, PARENT_ID)))
        /\ AfterStep("create", exc)
    /\ UNCHANGED <<config, envelope, requesting_ip, membership_id, okta_ip_ranges,
                   groupName, is_okta, added>>

\* the activation ends: its locals are gone, nothing is kept for the next one
Finish ==
    /\ pc = "returned"
    /\ envelope' = NoEvent
    /\ pc' = "idle"
    /\ requesting_ip' = <<>>
    /\ membership_id' = ""
    /\ okta_ip_ranges' = <<>>
    /\ stepno' = 0
    /\ groupName' = ""
    /\ is_okta' = "unset"
    /\ added' = <<>>
    /\ calls' = <<>>
    /\ raised' = ""
    /\ result' = <<>>
    /\ UNCHANGED config

Next ==
    \/ Deliver
    \/ Decode
    \/ Fetch
    \/ Policy
    \/ GetCredentials
    \/ BuildService
    \/ LookupGroup
    \/ CreateMembership
    \/ Finish

Spec == Init /\ [][Next]_vars

\* ------------------------------------------------------------ properties
Returned == pc = "returned"
Status == result[2]
Undecodable == envelope.kind \in {"bad_base64", "bad_json", "missing_path"}
PropagatorOps == {"get_credentials", "build", "lookup", "create"}

\* gather_okta_ip_ranges was called and returned a list
GatherReturned ==
    /\ Len(calls) >= 1
    /\ calls[1].op = "fetch"
    /\ calls[1].exc \in {"", "RequestException"}
\* gather_okta_ip_ranges was called and an exception escaped it
GatherRaised ==
    /\ Len(calls) >= 1
    /\ calls[1].op = "fetch"
    /\ calls[1].exc \notin {"", "RequestException"}
FetchedEmpty == GatherReturned /\ okta_ip_ranges = <<>>
\* the invocation got past lines 66-79 with a non-empty range list
PolicyDone == GatherReturned /\ okta_ip_ranges # <<>> /\ pc # "policy"
\* the caller address lies inside some listed network
InsideSome(ip, ranges) ==
    \E i \in 1..Len(ranges) : ip_network_ok(ranges[i]) /\ in_network(ip, ranges[i])
\* some listed entry is not a network
SomeMalformed(ranges) == \E i \in 1..Len(ranges) : ~ip_network_ok(ranges[i])
StepFailed(ops) == \E i \in 1..Len(calls) : calls[i].op \in ops /\ calls[i].exc # ""

\* C1: once add_subgroup has been called, a failure of any of its steps
\* (credentials, lookup, create) leaves the status returned by index at 200.
C1_PropagatorFailureStill200 ==
    (Returned /\ added # <<>> /\ StepFailed({"get_credentials", "lookup", "create"}))
        => Status = 200

C3_DecodeErrorIs500 ==
    Undecodable =>
        /\ added = <<>>
        /\ \A i \in 1..Len(calls) : calls[i].op \notin PropagatorOps
        /\ Returned => result = <<"Error processing cloud event", 500>>

C3_Witness ==
    /\ Returned
    /\ envelope.kind = "missing_path"
    /\ raised = "KeyError"

\* C4: when gather_okta_ip_ranges yields an empty list, index returns status
\* 500 without calling add_subgroup, whatever the flag and the caller address.
C4_EmptyRangesIs500 ==
    FetchedEmpty =>
        /\ Returned
        /\ Status = 500
        /\ added = <<>>
        /\ \A i \in 1..Len(calls) : calls[i].op \notin PropagatorOps

C4_Witness ==
    /\ FetchedEmpty
    /\ calls[1].exc = ""
    /\ OKTA_GROUPS_ONLY # "True"
    /\ ip_address_ok(requesting_ip)
    /\ result = <<"Could not retrieve Okta IP ranges", 500>>

\* C5: with OKTA_GROUPS_ONLY other than "True", once the ranges are fetched
\* add_subgroup is called with the decoded membership id, whatever the caller
\* address (empty, malformed or untrusted).
C5_FlagOffAlwaysPropagates ==
    (PolicyDone /\ OKTA_GROUPS_ONLY # "True") => added = <<envelope.value>>

C5_Witness ==
    /\ PolicyDone
    /\ OKTA_GROUPS_ONLY = UnsetFlag
    /\ requesting_ip = <<>>
    /\ added = <<envelope.value>>
    /\ Returned

\* C6: with OKTA_GROUPS_ONLY = "True", a caller address that is empty, not a
\* parseable literal, or outside every listed network means add_subgroup is
\* not called and index returns status 200.
C6_UntrustedSkipped ==
    (/\ PolicyDone
     /\ OKTA_GROUPS_ONLY = "True"
     /\ \/ requesting_ip = <<>>
        \/ ~ip_address_ok(requesting_ip)
        \/ ~InsideSome(requesting_ip, okta_ip_ranges))
    => /\ added = <<>>
       /\ Returned
       /\ Status = 200
       /\ \A i \in 1..Len(calls) : calls[i].op \notin PropagatorOps

C6_Witness ==
    /\ PolicyDone
    /\ OKTA_GROUPS_ONLY = "True"
    /\ requesting_ip # <<>>
    /\ ~ip_address_ok(requesting_ip)
    /\ result = <<"Not an Okta IP", 200>>

\* C7: with OKTA_GROUPS_ONLY = "True" and a caller address inside some
\* listed network, wherever it stands in the list, add_subgroup is called
\* exactly once with the decoded membership id.
C7_TrustedPropagatesOnce ==
    (/\ PolicyDone
     /\ OKTA_GROUPS_ONLY = "True"
     /\ ip_address_ok(requesting_ip)
     /\ InsideSome(requesting_ip, okta_ip_ranges))
    => added = <<envelope.value>>

\* C8: for a parseable address, is_okta_ip returns True when the address is
\* inside some listed network and False when it is outside all of them,
\* malformed entries of the list notwithstanding.
C8_ClassifierScansAllRanges ==
    (is_okta # "unset" /\ ip_address_ok(requesting_ip)) =>
        IF InsideSome(requesting_ip, okta_ip_ranges)
        THEN is_okta = "True"
        ELSE is_okta # "True"

\* C9: no exception escapes index: an invocation never ends uncaught, and
\* what it returns is one (message, status) pair with status 200 or 500.
C9_NoUncaughtException ==
    /\ pc # "crashed"
    /\ raised # "" => Returned
    /\ Returned <=> result # <<>>
    /\ Returned => Len(result) = 2 /\ Status \in {200, 500}

C9_Witness ==
    /\ Returned
    /\ GatherRaised
    /\ raised = "AttributeError"
    /\ Status = 500

\* C10: the remote steps of add_subgroup occur in the order credentials,
\* lookup, create; the create call is issued at most once, only after both
\* earlier steps returned, with the decoded membership id and role "MEMBER";
\* after a failed earlier step no create call is issued.
C10_CreateAfterCredentialsAndLookup ==
    \A i \in 1..Len(calls) :
        calls[i].op = "create" =>
            /\ \A j \in 1..Len(calls) : calls[j].op = "create" => j = i
            /\ \E j \in 1..(i - 1) : \E k \in (j + 1)..(i - 1) :
                    /\ calls[j].op = "get_credentials" /\ calls[j].exc = ""
                    /\ calls[k].op = "lookup" /\ calls[k].exc = ""
            /\ \A j \in 1..(i - 1) : calls[j].op \in PropagatorOps => calls[j].exc = ""
            /\ calls[i].body = [preferredMemberKey |-> envelope.value, role |-> "MEMBER"]
            /\ added = <<envelope.value>>

C10_Witness ==
    /\ Returned
    /\ Len(calls) = 5
    /\ calls[5].op = "create"
    /\ calls[5].exc = ""
    /\ calls[5].arg = "groups/parent-group"

====
